---- MODULE Spec2Model ----
(***************************************************************************)
(* Model of the D-Bus desktop notifier (notifier_linux.go, interface.go).  *)
(* A Notifier is the record [conn, options, lastID, replaceID]; its        *)
(* methods are operators from (receiver, arguments, outcome of the remote  *)
(* call) to the receiver after the call plus what the caller observes.     *)
(* The actions apply these operators to the one Notifier of the model.     *)
(***************************************************************************)
EXTENDS Integers, Sequences, FiniteSets, TLC

VARIABLES
    conn,          \* session-bus connection: "none", "open" or "closed"
    notifier,      \* TRUE once NewNotifier has returned a Notifier
    options,       \* Notifier.options
    lastID,        \* Notifier.lastID
    replaceID,     \* Notifier.replaceID
    out,           \* what the most recent operation did (observation)
    lastReturned,  \* handle carried by the most recent reply that had one
    lastKey,       \* (title, artist, album) of the track of the most recent
                   \* Notify that reached the identity comparison
    closeCalls,    \* conn.Close() calls made by Notifier.Close so far
    threads        \* concurrent callers: each one's position in its call

vars == <<conn, notifier, options, lastID, replaceID, out, lastReturned,
          lastKey, closeCalls, threads>>

----------------------------------------------------------------------------
(* Bounds and input sets *)

\* largest notification id the daemon hands out
MaxHandle == 2

\* Close is called at most this many times
MaxCloses == 2

Titles    == {"", "t"}
Artists   == {"", "-"}
Albums    == {"", "-"}
Stations  == {"", "s"}
ImageURLs == {"", "u"}
Durations == {0, 1}

----------------------------------------------------------------------------
(* interface.go *)

\* ImageURL and Duration are read nowhere: they are varied together
TrackInfo ==
    {t \in [Title : Titles, Artist : Artists, Album : Albums,
            Station : Stations, ImageURL : ImageURLs, Duration : Durations] :
        t.ImageURL = "" <=> t.Duration = 0}

\* a *TrackInfo is <<>> (nil) or <<t>> (pointer to t)
Nil == <<>>
TrackPtrs == {Nil} \cup {<<t>> : t \in TrackInfo}

StatePlaying == "Playing"
StatePaused  == "Paused"
StateStopped == "Stopped"
PlaybackState == {StatePlaying, StatePaused, StateStopped}

DefaultOptions(appName) ==
    [AppName |-> appName, Icon |-> "media-playback-start", Timeout |-> 5000,
     NotifyOnPause |-> FALSE, ReplaceExisting |-> TRUE]

\* Options{}: every field at its zero value
ZeroOptions ==
    [AppName |-> "", Icon |-> "", Timeout |-> 0,
     NotifyOnPause |-> FALSE, ReplaceExisting |-> FALSE]

\* the options a Notifier is constructed with
OptionSet ==
    {[DefaultOptions("Foo") EXCEPT !.NotifyOnPause = p, !.ReplaceExisting = r] :
        p \in BOOLEAN, r \in BOOLEAN}
    \cup {ZeroOptions}

----------------------------------------------------------------------------
(* Outcomes of a remote call (dbus.Call): Err set, or a Body of values.    *)
(* A value is tagged with its dynamic type.                                *)

ErrCall == [Err |-> TRUE, Body |-> <<>>]

HandleCall(id) == [Err |-> FALSE, Body |-> <<[type |-> "uint32", val |-> id]>>]

Calls ==
    {ErrCall, [Err |-> FALSE, Body |-> <<>>],
     [Err |-> FALSE, Body |-> <<[type |-> "string", val |-> 0]>>]}
    \cup {HandleCall(id) : id \in 1..MaxHandle}

\* a call on a closed connection fails
CallsOn(c) == IF c = "open" THEN Calls ELSE {ErrCall}

----------------------------------------------------------------------------
(* notifier_linux.go: Notify's guards and the identity key *)

\* mutant: the station is made part of the key
currentID_WithStation(t) ==
    t.Title \o "-" \o t.Artist \o "-" \o t.Album \o "-" \o t.Station

\* fmt.Sprintf("%s-%s-%s", track.Title, track.Artist, track.Album)
currentID(t) == t.Title \o "-" \o t.Artist \o "-" \o t.Album

\* mutant: a track with an album counts as playing
NothingPlaying_AlbumToo(t) == t.Title = "" /\ t.Artist = "" /\ t.Album = ""

\* track.Title == "" && track.Artist == ""
NothingPlaying(t) == t.Title = "" /\ t.Artist = ""

\* state == StatePaused && !n.options.NotifyOnPause
PauseSuppressed(n, state) == state = StatePaused /\ ~n.options.NotifyOnPause

\* mutant: the stored key is compared with the title alone
SameTrack_TitleOnly(n, t) == t.Title = n.lastID

\* currentID == n.lastID
SameTrack(n, t) == currentID(t) = n.lastID

\* The return Notify takes: the first guard that fires, else "show".
NotifyPath(n, track, state) ==
    IF track = Nil THEN "nil"
    ELSE IF NothingPlaying(track[1]) THEN "nothing"
    ELSE IF PauseSuppressed(n, state) THEN "pause"
    ELSE IF SameTrack(n, track[1]) THEN "same"
    ELSE "show"

----------------------------------------------------------------------------
(* notifier_linux.go: showNotification *)

\* stands for the pause glyph of the source
PauseGlyph == "||"

\* mutant: the station is preferred to the artist
BaseBody_StationFirst(t) ==
    IF t.Artist # "" /\ t.Album # "" THEN t.Artist \o "\n" \o t.Album
    ELSE IF t.Station # "" THEN t.Station
    ELSE IF t.Artist # "" THEN t.Artist
    ELSE "Now Playing"

BaseBody(t) ==
    IF t.Artist # "" /\ t.Album # "" THEN t.Artist \o "\n" \o t.Album
    ELSE IF t.Artist # "" THEN t.Artist
    ELSE IF t.Station # "" THEN t.Station
    ELSE "Now Playing"

Body(t, state) ==
    IF state = StatePaused THEN PauseGlyph \o " " \o BaseBody(t) ELSE BaseBody(t)

Summary(t) == IF t.Title = "" THEN "Now Playing" ELSE t.Title

AppName(n) == IF n.options.AppName = "" THEN "Music Player" ELSE n.options.AppName

Icon(n) == IF n.options.Icon = "" THEN "media-playback-start" ELSE n.options.Icon

\* mutant: every remote call creates a new notification
ReplaceArg_AlwaysNew(n) == 0

\* replaceID := n.replaceID; if !n.options.ReplaceExisting { replaceID = 0 }
ReplaceArg(n) == IF ~n.options.ReplaceExisting THEN 0 ELSE n.replaceID

\* the positional arguments of the Notify remote call
NotifyArgs(n, t, state) ==
    [appName |-> AppName(n), replacesID |-> ReplaceArg(n), icon |-> Icon(n),
     summary |-> Summary(t), body |-> Body(t, state),
     actions |-> <<>>, hints |-> {}, timeout |-> n.options.Timeout]

\* mutant: the handle is stored whatever ReplaceExisting says
StoredHandle_IgnoresOption(n, call) ==
    IF call.Err THEN n.replaceID
    ELSE IF Len(call.Body) > 0 /\ call.Body[1].type = "uint32"
         THEN call.Body[1].val
         ELSE n.replaceID

\* mutant: a failed call forgets the stored handle
StoredHandle_ResetOnError(n, call) ==
    IF call.Err THEN 0
    ELSE IF n.options.ReplaceExisting /\ Len(call.Body) > 0
            /\ call.Body[1].type = "uint32"
         THEN call.Body[1].val
         ELSE n.replaceID

\* n.replaceID after the reply `call` has been handled
StoredHandle(n, call) ==
    IF call.Err THEN n.replaceID
    ELSE IF n.options.ReplaceExisting /\ Len(call.Body) > 0
            /\ call.Body[1].type = "uint32"
         THEN call.Body[1].val
         ELSE n.replaceID

\* showNotification(track, state) with the remote call answering `call`:
\* the receiver afterwards, the error returned, the remote call made
\* mutant: showing a track also stores its identity
showNotification_MarksShown(n, t, state, call) ==
    [n    |-> [n EXCEPT !.replaceID = StoredHandle(n, call),
                        !.lastID = currentID(t)],
     err  |-> call.Err,
     sent |-> <<NotifyArgs(n, t, state)>>]

showNotification(n, t, state, call) ==
    [n    |-> [n EXCEPT !.replaceID = StoredHandle(n, call)],
     err  |-> call.Err,
     sent |-> <<NotifyArgs(n, t, state)>>]

\* a return before any remote call
NoOp(n) == [n |-> n, err |-> FALSE, sent |-> <<>>]

\* mutant: the pause check comes after the identity has been stored
Notify_PauseAfterCommit(n, track, state, call) ==
    IF track = Nil \/ NothingPlaying(track[1]) \/ SameTrack(n, track[1])
    THEN NoOp(n)
    ELSE IF PauseSuppressed(n, state)
    THEN NoOp([n EXCEPT !.lastID = currentID(track[1])])
    ELSE showNotification([n EXCEPT !.lastID = currentID(track[1])],
                          track[1], state, call)

\* mutant: the identity is stored only once the remote call has succeeded
Notify_CommitAfterSend(n, track, state, call) ==
    IF NotifyPath(n, track, state) = "show"
    THEN LET r == showNotification(n, track[1], state, call)
         IN  IF r.err THEN r
             ELSE [r EXCEPT !.n.lastID = currentID(track[1])]
    ELSE NoOp(n)

Notify(n, track, state, call) ==
    IF NotifyPath(n, track, state) = "show"
    THEN showNotification([n EXCEPT !.lastID = currentID(track[1])],
                          track[1], state, call)
    ELSE NoOp(n)

\* mutant: NotifyNow keeps the nothing-playing and pause guards
NotifyNow_KeepsGuards(n, track, state, call) ==
    IF track = Nil \/ NothingPlaying(track[1]) \/ PauseSuppressed(n, state)
    THEN NoOp(n)
    ELSE showNotification(n, track[1], state, call)

\* mutant: NotifyNow goes through Notify's deduplication
NotifyNow_Dedup(n, track, state, call) == Notify(n, track, state, call)

NotifyNow(n, track, state, call) ==
    IF track = Nil THEN NoOp(n)
    ELSE showNotification(n, track[1], state, call)

----------------------------------------------------------------------------
(* The Notifier of the model and the caller's steps *)

self == [conn |-> conn, options |-> options, lastID |-> lastID,
         replaceID |-> replaceID]

\* the handle a reply carries, or `prev` when it carries none
Returned(call, prev) ==
    IF ~call.Err /\ Len(call.Body) > 0 /\ call.Body[1].type = "uint32"
    THEN call.Body[1].val ELSE prev

\* the fields the identity key is built from
Key(t) == [Title |-> t.Title, Artist |-> t.Artist, Album |-> t.Album]

\* One finished operation: the receiver's fields after it, and what the
\* caller and the daemon saw of it (the error returned, the replaces_id of
\* the remote call if one was made).
Finish(op, path, r, call) ==
    /\ lastID' = r.n.lastID
    /\ replaceID' = r.n.replaceID
    /\ out' = [op |-> op, path |-> path, err |-> r.err,
               sent |-> IF r.sent = <<>> THEN <<>>
                        ELSE <<r.sent[1].replacesID>>]
    /\ lastReturned' = IF r.sent = <<>> THEN lastReturned
                       ELSE Returned(call, lastReturned)
    /\ UNCHANGED <<conn, notifier, options, closeCalls, threads>>

\* the host's threads that call into the one Notifier
Threads == {1, 2}

\* a thread that is in no call
Idle == [pc |-> "idle", op |-> "", track |-> Nil, state |-> StatePlaying,
         arg |-> 0, reply |-> ErrCall, sent |-> 0, err |-> FALSE]

\* NewNotifier returned a Notifier: connection open, probe answered
Init ==
    /\ conn = "open"
    /\ notifier = TRUE
    /\ options \in OptionSet
    /\ lastID = ""
    /\ replaceID = 0
    /\ out = [op |-> "NewNotifier", path |-> "ok", err |-> FALSE, sent |-> <<>>]
    /\ lastReturned = 0
    /\ lastKey = <<>>
    /\ closeCalls = 0
    /\ threads = [i \in Threads |-> Idle]

DoNotify(track, state, call) ==
    /\ notifier
    /\ Finish("Notify", NotifyPath(self, track, state),
              Notify(self, track, state, call), call)
    /\ lastKey' = IF NotifyPath(self, track, state) \in {"same", "show"}
                  THEN <<Key(track[1])>> ELSE lastKey

DoNotifyNow(track, state, call) ==
    /\ notifier
    \* recorded with the guard at which Notify would have returned
    /\ Finish("NotifyNow", NotifyPath(self, track, state),
              NotifyNow(self, track, state, call), call)
    /\ UNCHANGED lastKey

\* Close() with conn.Close() returning `err` (an error or none, the library
\* decides): n.conn is tested against nil and never assigned, so every
\* Close of a constructed Notifier calls conn.Close() and returns its result.
\* closes: the conn.Close() calls made
Close(n, err) ==
    IF n.conn # "none"
    THEN [n |-> [n EXCEPT !.conn = "closed"], err |-> err, closes |-> 1]
    ELSE [n |-> n, err |-> FALSE, closes |-> 0]

DoClose(err) ==
    /\ notifier
    /\ closeCalls < MaxCloses
    /\ LET r == Close(self, err)
       IN  /\ conn' = r.n.conn
           /\ closeCalls' = closeCalls + r.closes
           /\ out' = [op |-> "Close", path |-> "close", err |-> r.err,
                      sent |-> <<>>]
    /\ UNCHANGED <<notifier, options, lastID, replaceID, lastReturned,
                   lastKey, threads>>

\* the outcomes of the remote call an operation makes: one placeholder
\* when it returns before the call
CallsOf(path) == IF path = "show" THEN CallsOn(conn) ELSE {ErrCall}

Next ==
    \/ \E track \in TrackPtrs, state \in PlaybackState :
           \E call \in CallsOf(NotifyPath(self, track, state)) :
               DoNotify(track, state, call)
    \/ \E track \in TrackPtrs, state \in PlaybackState :
           \E call \in CallsOf(IF track = Nil THEN "nil" ELSE "show") :
               DoNotifyNow(track, state, call)
    \/ \E err \in BOOLEAN : DoClose(err)

Spec == Init /\ [][Next]_vars

----------------------------------------------------------------------------
(* notifier_linux.go: NewNotifier, from before the connection is opened *)

\* mutant: the probe's failure path returns without conn.Close()
NewNotifier_LeakOnProbeFailure(opts, connected, probe) ==
    IF ~connected
    THEN [notifier |-> <<>>, err |-> TRUE, conn |-> "none"]
    ELSE IF probe.Err
    THEN [notifier |-> <<>>, err |-> TRUE, conn |-> "open"]
    ELSE [notifier |-> <<[conn |-> "open", options |-> opts, lastID |-> "",
                          replaceID |-> 0]>>,
          err |-> FALSE, conn |-> "open"]

\* NewNotifier(options) with dbus.ConnectSessionBus succeeding or not
\* (connected) and the GetCapabilities probe answering `probe`: the
\* Notifier returned (<<>> is nil), the error, and the state of the
\* connection the call opened ("none": it opened none)
NewNotifier(opts, connected, probe) ==
    IF ~connected
    THEN [notifier |-> <<>>, err |-> TRUE, conn |-> "none"]
    ELSE IF probe.Err
    THEN [notifier |-> <<>>, err |-> TRUE, conn |-> "closed"]
    ELSE [notifier |-> <<[conn |-> "open", options |-> opts, lastID |-> "",
                          replaceID |-> 0]>>,
          err |-> FALSE, conn |-> "open"]

\* no Notifier yet and no connection
InitNew ==
    /\ conn = "none"
    /\ notifier = FALSE
    /\ options = ZeroOptions
    /\ lastID = ""
    /\ replaceID = 0
    /\ out = [op |-> "none", path |-> "none", err |-> FALSE, sent |-> <<>>]
    /\ lastReturned = 0
    /\ lastKey = <<>>
    /\ closeCalls = 0
    /\ threads = [i \in Threads |-> Idle]

\* the host constructs its Notifier (again, after a failed attempt)
DoNewNotifier(opts, connected, probe) ==
    /\ ~notifier
    /\ LET r == NewNotifier(opts, connected, probe)
       IN  /\ conn' = r.conn
           /\ notifier' = (r.notifier # <<>>)
           /\ options' = IF r.notifier # <<>> THEN r.notifier[1].options
                         ELSE options
           /\ lastID' = IF r.notifier # <<>> THEN r.notifier[1].lastID
                        ELSE lastID
           /\ replaceID' = IF r.notifier # <<>> THEN r.notifier[1].replaceID
                           ELSE replaceID
           /\ out' = [op |-> "NewNotifier",
                      path |-> IF ~connected THEN "connect"
                               ELSE IF r.err THEN "probe" ELSE "ok",
                      err |-> r.err, sent |-> <<>>]
    /\ UNCHANGED <<lastReturned, lastKey, closeCalls, threads>>

NextNew ==
    \/ \E opts \in OptionSet, connected \in BOOLEAN, probe \in Calls :
           DoNewNotifier(opts, connected, probe)
    \/ Next

SpecNew == InitNew /\ [][NextNew]_vars

----------------------------------------------------------------------------
(* Concurrent callers.  Notifier has no lock (its fields are conn, options, *)
(* lastID, replaceID), so calls from two goroutines interleave between     *)
(* their reads and writes of lastID and replaceID.  Each thread makes one  *)
(* call, one step per access to the shared fields and one for the remote   *)
(* call.  Interleaving whole reads and writes is the mildest outcome of    *)
(* the unsynchronised accesses.                                            *)

\* the tracks the concurrent callers pass
ConcTracks ==
    {Nil} \cup {<<t>> : t \in {u \in TrackInfo :
                    u.Album = "" /\ u.Station = "" /\ u.ImageURL = ""}}

InitConc ==
    /\ Init
    /\ options.AppName = "Foo"

Set(i, rec) == threads' = [threads EXCEPT ![i] = rec]

\* entry of Notify / NotifyNow: the checks that read the arguments and the
\* immutable options only (lines 57-69, 86-88)
Begin(i, op, track, state) ==
    /\ threads[i].pc = "idle"
    /\ LET skip == \/ track = Nil
                   \/ op = "Notify" /\ NothingPlaying(track[1])
                   \/ op = "Notify" /\ PauseSuppressed(self, state)
       IN  Set(i, [Idle EXCEPT !.op = op, !.track = track, !.state = state,
                        !.pc = IF skip THEN "done"
                               ELSE IF op = "Notify" THEN "check"
                               ELSE "readID"])
    /\ UNCHANGED <<conn, notifier, options, lastID, replaceID, out,
                   lastReturned, lastKey, closeCalls>>

\* lines 72-75: read n.lastID and compare
Check(i) ==
    /\ threads[i].pc = "check"
    /\ Set(i, [threads[i] EXCEPT
                  !.pc = IF SameTrack(self, threads[i].track[1])
                         THEN "done" ELSE "commit"])
    /\ UNCHANGED <<conn, notifier, options, lastID, replaceID, out,
                   lastReturned, lastKey, closeCalls>>

\* line 78: write n.lastID
Commit(i) ==
    /\ threads[i].pc = "commit"
    /\ lastID' = currentID(threads[i].track[1])
    /\ Set(i, [threads[i] EXCEPT !.pc = "readID"])
    /\ UNCHANGED <<conn, notifier, options, replaceID, out, lastReturned,
                   lastKey, closeCalls>>

\* lines 138-141: read n.replaceID
ReadID(i) ==
    /\ threads[i].pc = "readID"
    /\ Set(i, [threads[i] EXCEPT !.pc = "call", !.arg = ReplaceArg(self)])
    /\ UNCHANGED <<conn, notifier, options, lastID, replaceID, out,
                   lastReturned, lastKey, closeCalls>>

\* lines 144-159: the remote call and its reply
Call(i, call) ==
    /\ threads[i].pc = "call"
    /\ Set(i, [threads[i] EXCEPT !.sent = 1, !.reply = call,
                  !.err = call.Err,
                  !.pc = IF call.Err THEN "done" ELSE "store"])
    /\ lastReturned' = Returned(call, lastReturned)
    /\ UNCHANGED <<conn, notifier, options, lastID, replaceID, out, lastKey,
                   closeCalls>>

\* lines 162-168: write n.replaceID
Store(i) ==
    /\ threads[i].pc = "store"
    /\ replaceID' = StoredHandle(self, threads[i].reply)
    /\ Set(i, [threads[i] EXCEPT !.pc = "done"])
    /\ UNCHANGED <<conn, notifier, options, lastID, out, lastReturned,
                   lastKey, closeCalls>>

NextConc ==
    \/ \E i \in Threads, op \in {"Notify", "NotifyNow"},
          track \in ConcTracks, state \in PlaybackState :
              Begin(i, op, track, state)
    \/ \E i \in Threads : Check(i)
    \/ \E i \in Threads : Commit(i)
    \/ \E i \in Threads : ReadID(i)
    \/ \E i \in Threads, call \in CallsOn(conn) : Call(i, call)
    \/ \E i \in Threads : Store(i)

SpecConc == InitConc /\ [][NextConc]_vars

----------------------------------------------------------------------------
(* Properties.  A property about two successive calls applies the method   *)
(* to the receiver the first call leaves, for every input of both calls;   *)
(* the outcome of a remote call is drawn where the call is made (CallsOf). *)

\* C1: calling Notify twice in a row with the same track and state makes at
\* most one remote call: the second call makes none and leaves lastID and
\* replaceID as the first call left them.
C1_NotifyIdempotent ==
    \A track \in TrackPtrs, state \in PlaybackState :
        \A c1 \in CallsOf(NotifyPath(self, track, state)) :
            LET r1 == Notify(self, track, state, c1)
            IN  \A c2 \in CallsOf(NotifyPath(r1.n, track, state)) :
                    LET r2 == Notify(r1.n, track, state, c2)
                    IN  /\ r2.sent = <<>>
                        /\ r2.n.lastID = r1.n.lastID
                        /\ r2.n.replaceID = r1.n.replaceID
                        /\ Len(r1.sent) + Len(r2.sent) <= 1

\* a Notify has just been suppressed as a repeat of the stored identity
C1_Witness ==
    /\ out.op = "Notify" /\ out.path = "same" /\ out.sent = <<>>
    /\ lastID # ""

\* track t passes the guards of Notify that precede the identity comparison
PassesGuards(t, state) == ~NothingPlaying(t) /\ ~PauseSuppressed(self, state)

\* C2: after a Notify whose track passed the guards, a Notify whose track
\* passes the guards and differs from it in title, artist or album makes a
\* remote call.
C2_DistinctTriplesEmit ==
    (out.op = "Notify" /\ out.path \in {"same", "show"}) =>
        \A t \in TrackInfo, state \in PlaybackState, call \in CallsOn(conn) :
            (PassesGuards(t, state) /\ Key(t) # lastKey[1]) =>
                Notify(self, <<t>>, state, call).sent # <<>>

\* C3: after a Notify that stored a track's identity, a Notify of a track
\* with the same title, artist and album (whatever its station, image URL
\* and duration) makes no remote call and changes nothing.
C3_IdentityExcludesRest ==
    (out.op = "Notify" /\ out.path = "show") =>
        \A t \in TrackInfo, state \in PlaybackState, call \in CallsOn(conn) :
            Key(t) = lastKey[1] => Notify(self, <<t>>, state, call) = NoOp(self)

\* an identity was just stored, and a track differing from it in station,
\* image URL and duration only is judged the same track
C3_Witness ==
    /\ out.op = "Notify" /\ out.path = "show"
    /\ \E t \in TrackInfo :
          /\ Key(t) = lastKey[1]
          /\ t.Station # "" /\ t.ImageURL # "" /\ t.Duration # 0
          /\ NotifyPath(self, <<t>>, StatePlaying) = "same"

\* C4: with NotifyOnPause off, Notify(track, Paused) makes no remote call
\* and changes no state, so a later Notify(track, Playing) does what it
\* would have done without the paused call.
C4_PauseSuppression ==
    ~options.NotifyOnPause =>
        \A track \in TrackPtrs :
            \A call \in CallsOf(NotifyPath(self, track, StatePaused)) :
                LET r == Notify(self, track, StatePaused, call)
                IN  /\ r.sent = <<>> /\ ~r.err
                    /\ r.n = self
                    /\ \A c2 \in CallsOf(NotifyPath(self, track, StatePlaying)) :
                          Notify(r.n, track, StatePlaying, c2)
                              = Notify(self, track, StatePlaying, c2)

\* a paused Notify was suppressed while an identity was stored
C4_Witness ==
    /\ ~options.NotifyOnPause
    /\ out.op = "Notify" /\ out.path = "pause" /\ out.sent = <<>>
    /\ lastID # ""

\* the replaces_id of the remote call in result r, if it made one
Passes(r, id) == r.sent # <<>> => r.sent[1].replacesID = id

\* C5: with ReplaceExisting on, every remote call of Notify and NotifyNow
\* passes as replaces_id the handle carried by the most recent earlier reply
\* that carried one, 0 if there was none.
C5_ReplacePassesLastHandle ==
    options.ReplaceExisting =>
        \A track \in TrackPtrs, state \in PlaybackState,
           call \in CallsOn(conn) :
            /\ Passes(Notify(self, track, state, call), lastReturned)
            /\ Passes(NotifyNow(self, track, state, call), lastReturned)

\* a Notify has passed a handle the daemon returned earlier
C5_Witness ==
    /\ options.ReplaceExisting
    /\ out.op = "Notify" /\ out.sent # <<>>
    /\ out.sent[1] > 0

\* C6: with ReplaceExisting off, the stored handle is 0 in every state and
\* every remote call passes replaces_id 0, whatever the daemon returned.
C6_NoReplaceAlwaysZero ==
    ~options.ReplaceExisting =>
        /\ replaceID = 0
        /\ (out.sent # <<>> => out.sent[1] = 0)
        /\ \A track \in TrackPtrs, state \in PlaybackState,
              call \in CallsOn(conn) :
              /\ Passes(Notify(self, track, state, call), 0)
              /\ Passes(NotifyNow(self, track, state, call), 0)
              /\ Notify(self, track, state, call).n.replaceID = 0
              /\ NotifyNow(self, track, state, call).n.replaceID = 0

\* the daemon has returned a handle, and a later remote call (it failed, so
\* the handle is not its own) passed 0
C6_Witness ==
    /\ ~options.ReplaceExisting
    /\ lastReturned > 0
    /\ out.sent = <<0>> /\ out.err

\* C7: Notify of a track with empty title and empty artist makes no remote
\* call and leaves lastID and replaceID alone, whatever is stored.
C7_NothingPlayingGuard ==
    \A t \in TrackInfo, state \in PlaybackState, call \in CallsOn(conn) :
        (t.Title = "" /\ t.Artist = "") =>
            LET r == Notify(self, <<t>>, state, call)
            IN  r.sent = <<>> /\ ~r.err /\ r.n = self

\* a nothing-playing Notify returned early while an identity was stored
C7_Witness ==
    /\ out.op = "Notify" /\ out.path = "nothing" /\ out.sent = <<>>
    /\ lastID # ""

\* C8: two consecutive NotifyNow calls with the same non-nil track and the
\* same state both make a remote call, in every reachable state and for
\* every reply to the first (the second call is made before its own reply
\* exists: it is given the reply of the first).
C8_NotifyNowNoDedup ==
    \A t \in TrackInfo, state \in PlaybackState, c1 \in CallsOn(conn) :
        LET r1 == NotifyNow(self, <<t>>, state, c1)
            r2 == NotifyNow(r1.n, <<t>>, state, c1)
        IN  r1.sent # <<>> /\ r2.sent # <<>>

\* a NotifyNow made a remote call replacing the notification of an earlier
\* NotifyNow (no Notify has reached the identity comparison)
C8_Witness ==
    /\ out.op = "NotifyNow" /\ out.sent # <<>>
    /\ out.sent[1] > 0
    /\ lastKey = <<>>

\* C9: when Notify passes every guard and the remote call fails, the error
\* is returned with the new identity already stored, so the same Notify
\* repeated at once makes no remote call and returns no error.
C9_CommitBeforeSend ==
    \A t \in TrackInfo, state \in PlaybackState :
        (PassesGuards(t, state) /\ currentID(t) # lastID) =>
            LET r1 == Notify(self, <<t>>, state, ErrCall)
            IN  /\ r1.sent # <<>> /\ r1.err
                /\ r1.n.lastID = currentID(t)
                /\ \A c2 \in CallsOn(conn) :
                      LET r2 == Notify(r1.n, <<t>>, state, c2)
                      IN  r2.sent = <<>> /\ ~r2.err

\* a Notify stored an identity and its remote call failed
C9_Witness ==
    /\ out.op = "Notify" /\ out.path = "show" /\ out.err
    /\ lastID # ""

\* C10: when the remote call of Notify or NotifyNow fails, the operation
\* returns an error and replaceID is what it was, so the next remote call
\* passes the same replaces_id as this one did.
C10_FailedCallKeepsHandle ==
    \A t \in TrackInfo, state \in PlaybackState :
        LET a == NotifyNow(self, <<t>>, state, ErrCall)
            b == Notify(self, <<t>>, state, ErrCall)
        IN  /\ a.sent # <<>> /\ a.err
            /\ a.n.replaceID = replaceID
            /\ ReplaceArg(a.n) = a.sent[1].replacesID
            /\ b.sent # <<>> =>
                  /\ b.err
                  /\ b.n.replaceID = replaceID
                  /\ ReplaceArg(b.n) = b.sent[1].replacesID

\* a remote call failed while a handle was stored
C10_Witness ==
    /\ options.ReplaceExisting
    /\ out.sent # <<>> /\ out.err
    /\ replaceID > 0

\* the reply carries no uint32 handle: no values, or a first value of
\* another type
Malformed(call) ==
    ~call.Err /\ (Len(call.Body) = 0 \/ call.Body[1].type # "uint32")

\* C11: when the reply to the Notify remote call is malformed, Notify and
\* NotifyNow return an error.
C11_MalformedReplyIsError ==
    \A t \in TrackInfo, state \in PlaybackState, call \in CallsOn(conn) :
        Malformed(call) =>
            /\ NotifyNow(self, <<t>>, state, call).err
            /\ (NotifyPath(self, <<t>>, state) = "show"
                   => Notify(self, <<t>>, state, call).err)

\* C12: NewNotifier returns a Notifier or an error, never both or neither;
\* when the connection cannot be opened it holds none; when the probe fails
\* it has closed the connection it opened; so no connection is ever open
\* without a Notifier owning it.
C12_ConstructionReleases ==
    /\ ~notifier => conn # "open"
    /\ (out.op = "NewNotifier" /\ out.err) => ~notifier
    /\ \A opts \in OptionSet, connected \in BOOLEAN, probe \in Calls :
          LET r == NewNotifier(opts, connected, probe)
          IN  /\ r.err <=> (r.notifier = <<>>)
              /\ r.err <=> (~connected \/ probe.Err)
              /\ ~connected => r.conn = "none"
              /\ (connected /\ probe.Err) => r.conn = "closed"
              /\ r.notifier # <<>> =>
                    r.conn = "open" /\ r.notifier[1].conn = "open"

\* the probe failed: an error, no Notifier, the opened connection closed
C12_Witness ==
    /\ out.op = "NewNotifier" /\ out.path = "probe" /\ out.err
    /\ ~notifier /\ conn = "closed"

\* C13: however often Close is called, conn.Close() is called once: a Close
\* after the first makes no further call on the connection and returns no
\* error.
C13_CloseReleasesOnce ==
    /\ closeCalls <= 1
    /\ (out.op = "Close" /\ closeCalls > 1) => ~out.err

\* every thread has returned from its call
AllDone == \A i \in Threads : threads[i].pc = "done"

\* thread i made a remote call and its reply carried a handle
GotHandle(i) == threads[i].sent = 1 /\ Returned(threads[i].reply, 0) # 0

\* C14: concurrent calls behave as some sequential order of them: two
\* concurrent Notify calls with the same track, new to the Notifier and
\* passing the guards, make exactly one remote call between them, and no
\* returned handle is lost (with ReplaceExisting, of two calls that were
\* both given a handle, the later one in that order passed the handle of
\* the earlier as replaces_id).
C14_ConcurrentCallsSerialized ==
    AllDone =>
        /\ (/\ threads[1].op = "Notify" /\ threads[2].op = "Notify"
            /\ threads[1].track = threads[2].track
            /\ threads[1].state = threads[2].state
            /\ threads[1].track # Nil
            /\ PassesGuards(threads[1].track[1], threads[1].state))
              => threads[1].sent + threads[2].sent = 1
        /\ (options.ReplaceExisting /\ GotHandle(1) /\ GotHandle(2))
              => \/ threads[2].arg = Returned(threads[1].reply, 0)
                 \/ threads[1].arg = Returned(threads[2].reply, 0)

\* C15: for a track with title, artist and station but no album, the
\* notification shown has the title as summary and artist, newline, station
\* as body.
C15_RadioStationBody ==
    \A t \in TrackInfo, state \in PlaybackState \ {StatePaused} :
        (t.Title # "" /\ t.Artist # "" /\ t.Album = "" /\ t.Station # "") =>
            LET a == NotifyArgs(self, t, state)
            IN  /\ a.summary = t.Title
                /\ a.body = t.Artist \o "\n" \o t.Station

\* C16: with NotifyOnPause on, after Notify(track, Playing) has made its
\* remote call, Notify(track, Paused) of the same track makes a remote call.
C16_NotifyOnPauseShows ==
    options.NotifyOnPause =>
        \A t \in TrackInfo, c1 \in CallsOn(conn), c2 \in CallsOn(conn) :
            LET r1 == Notify(self, <<t>>, StatePlaying, c1)
            IN  (r1.sent # <<>> /\ ~r1.err) =>
                    Notify(r1.n, <<t>>, StatePaused, c2).sent # <<>>

C18_NotifyNowOnlyNilGuard ==
    /\ out.op = "NotifyNow" => (out.sent = <<>> <=> out.path = "nil")
    /\ \A state \in PlaybackState, call \in CallsOn(conn) :
          /\ NotifyNow(self, Nil, state, call) = NoOp(self)
          /\ \A t \in TrackInfo :
                NotifyNow(self, <<t>>, state, call).sent # <<>>

\* a NotifyNow made the remote call where Notify would have returned at the
\* pause guard
C18_Witness ==
    /\ out.op = "NotifyNow" /\ out.path = "pause"
    /\ ~options.NotifyOnPause
    /\ out.sent # <<>>

\* C19: Notify makes the remote call exactly when the track is non-nil, has
\* a title or an artist, is not suppressed by the pause rule, and its
\* (title, artist, album) differs from that of the most recently stored
\* track; so on a Notifier that has stored nothing, Notify of A, B, A with
\* distinct (title, artist, album) makes three remote calls, and the first
\* Notify that passes the guards makes the call with replaces_id 0.
C19_ExactEmitCondition ==
    /\ \A state \in PlaybackState, call \in CallsOn(conn) :
          Notify(self, Nil, state, call).sent = <<>>
    /\ (out.op = "Notify" /\ out.path = "show") =>
          \A t \in TrackInfo, state \in PlaybackState, call \in CallsOn(conn) :
              Notify(self, <<t>>, state, call).sent # <<>>
                  <=> (PassesGuards(t, state) /\ Key(t) # lastKey[1])
    /\ (lastKey = <<>> /\ lastID = "" /\ replaceID = 0) =>
          /\ \A t \in TrackInfo, state \in PlaybackState,
                call \in CallsOn(conn) :
                LET r == Notify(self, <<t>>, state, call)
                IN  IF PassesGuards(t, state)
                    THEN r.sent # <<>> /\ r.sent[1].replacesID = 0
                    ELSE r.sent = <<>>
          /\ LET Plain == {u \in TrackInfo : u.Station = "" /\ u.ImageURL = ""}
             IN  \A A \in Plain, B \in Plain, call \in CallsOn(conn) :
                    (/\ Key(A) # Key(B)
                     /\ PassesGuards(A, StatePlaying)
                     /\ PassesGuards(B, StatePlaying)) =>
                        LET r1 == Notify(self, <<A>>, StatePlaying, call)
                            r2 == Notify(r1.n, <<B>>, StatePlaying, call)
                            r3 == Notify(r2.n, <<A>>, StatePlaying, call)
                        IN  /\ r1.sent # <<>>
                            /\ r2.sent # <<>>
                            /\ r3.sent # <<>>

\* C20 as stated: NotifyNow never changes the stored identity (it changes at
\* most the stored handle, and only on success with ReplaceExisting on);
\* hence after NotifyNow(track) on a Notifier whose stored identity is not
\* that track's, Notify(track) makes the remote call, and after
\* Notify(track) a NotifyNow of any track leaves Notify(track) a no-op.
C20_AsStated ==
    /\ \A t \in TrackInfo, state \in PlaybackState, call \in CallsOn(conn) :
          LET r1 == NotifyNow(self, <<t>>, state, call)
          IN  /\ r1.n.lastID = lastID
              /\ r1.n.replaceID # replaceID =>
                    ~r1.err /\ options.ReplaceExisting
              /\ currentID(t) # lastID =>
                    Notify(r1.n, <<t>>, state, call).sent # <<>>
    /\ (out.op = "NotifyNow" /\ lastKey # <<>>) =>
          \A t \in TrackInfo, state \in PlaybackState, call \in CallsOn(conn) :
              Key(t) = lastKey[1] =>
                  Notify(self, <<t>>, state, call) = NoOp(self)

\* C20: NotifyNow never changes the stored identity (it changes at most the
\* stored handle, and only on success with ReplaceExisting on); hence after
\* NotifyNow(track) on a Notifier whose stored identity is not that track's,
\* Notify(track) makes the remote call provided the track has a title or an
\* artist and the pause rule does not suppress it, and after Notify(track)
\* a NotifyNow of any track leaves Notify(track) a no-op.
C20_NotifyNowKeepsIdentity ==
    /\ \A t \in TrackInfo, state \in PlaybackState, call \in CallsOn(conn) :
          LET r1 == NotifyNow(self, <<t>>, state, call)
          IN  /\ r1.n.lastID = lastID
              /\ r1.n.replaceID # replaceID =>
                    ~r1.err /\ options.ReplaceExisting
              /\ (currentID(t) # lastID /\ PassesGuards(t, state)) =>
                    Notify(r1.n, <<t>>, state, call).sent # <<>>
    /\ (out.op = "NotifyNow" /\ lastKey # <<>>) =>
          \A t \in TrackInfo, state \in PlaybackState, call \in CallsOn(conn) :
              Key(t) = lastKey[1] =>
                  Notify(self, <<t>>, state, call) = NoOp(self)

\* after a Notify had stored an identity, a NotifyNow of a track that Notify
\* would have shown made the remote call and stored the handle of the reply
C20_Witness ==
    /\ out.op = "NotifyNow" /\ out.path = "show"
    /\ out.sent # <<>> /\ ~out.err
    /\ lastKey # <<>>
    /\ replaceID > 0 /\ replaceID = lastReturned

====
